---- MODULE Spec2Model ----
(***************************************************************************)
(* Model of the Exam Support Bot (src/app.py): the ExamSupportBot object   *)
(* (table reference, lock, last-refresh timestamp), its search_issue and   *)
(* refresh operations run by concurrent threads, the OneDrive download     *)
(* helper, startup_load and the /api/search handler.                       *)
(*                                                                         *)
(* Text is a tuple of one-character strings, so that lower-casing,         *)
(* trimming, splitting, substring tests and difflib's similarity ratio are *)
(* computed as the Python code computes them.                              *)
(***************************************************************************)
EXTENDS Integers, Sequences, FiniteSets, TLC

(***************************************************************************)
(* Bounds of the model.                                                    *)
(***************************************************************************)
\* largest number of rows of a table the upstream sheet may hold
MaxRows == 6
\* the clock (minutes, the resolution of the "%Y-%m-%d %H:%M UTC" stamp) stops here
MaxClock == 1
\* refresh calls started over a run (manual /api/refresh and the background loop)
MaxRefreshCalls == 2

(***************************************************************************)
(* Text: characters, str.lower, str.strip, str.split, the "in" operator.   *)
(***************************************************************************)
UpperCs == <<"A","B","C","D","E","F","G","H","I","J","K","L","M",
             "N","O","P","Q","R","S","T","U","V","W","X","Y","Z">>
LowerCs == <<"a","b","c","d","e","f","g","h","i","j","k","l","m",
             "n","o","p","q","r","s","t","u","v","w","x","y","z">>

\* ord(c) for the characters of the model: space, A-Z, a-z
Ord(c) ==
  IF c = " " THEN 32
  ELSE IF \E i \in 1..26 : UpperCs[i] = c
       THEN 64 + (CHOOSE i \in 1..26 : UpperCs[i] = c)
       ELSE 96 + (CHOOSE i \in 1..26 : LowerCs[i] = c)

LowerChar(c) ==
  IF \E i \in 1..26 : UpperCs[i] = c
  THEN LowerCs[CHOOSE i \in 1..26 : UpperCs[i] = c]
  ELSE c

\* s.lower()
Lower(s) == [i \in 1..Len(s) |-> LowerChar(s[i])]

IsSpace(c) == c = " "

\* s.strip()
Strip(s) ==
  IF \A i \in 1..Len(s) : IsSpace(s[i]) THEN <<>>
  ELSE LET first == CHOOSE i \in 1..Len(s) :
                      ~IsSpace(s[i]) /\ \A k \in 1..(i-1) : IsSpace(s[k])
           last  == CHOOSE i \in 1..Len(s) :
                      ~IsSpace(s[i]) /\ \A k \in (i+1)..Len(s) : IsSpace(s[k])
       IN SubSeq(s, first, last)

\* s.split(): the maximal runs of non-whitespace characters, in order
RECURSIVE Split(_)
Split(s) ==
  IF s = <<>> THEN <<>>
  ELSE IF IsSpace(s[1]) THEN Split(Tail(s))
  ELSE LET n == IF \E i \in 1..Len(s) : IsSpace(s[i])
                THEN (CHOOSE i \in 1..Len(s) :
                        IsSpace(s[i]) /\ \A k \in 1..(i-1) : ~IsSpace(s[k])) - 1
                ELSE Len(s)
       IN <<SubSeq(s, 1, n)>> \o Split(SubSeq(s, n + 1, Len(s)))

\* sub in s  (Python's substring test on str)
StrIn(sub, s) ==
  \E i \in 1..(Len(s) - Len(sub) + 1) : SubSeq(s, i, i + Len(sub) - 1) = sub

\* s < t in Python's str ordering (code points, shorter prefix first)
StrLess(s, t) ==
  \E i \in 1..(Len(t)) :
     /\ \A k \in 1..(i-1) : k <= Len(s) /\ s[k] = t[k]
     /\ \/ i = Len(s) + 1
        \/ i <= Len(s) /\ Ord(s[i]) < Ord(t[i])

(***************************************************************************)
(* difflib.SequenceMatcher(a = possibility, b = word) without junk: the    *)
(* repository calls get_close_matches(query, issue_list, n=3, cutoff=0.4). *)
(***************************************************************************)
\* length of the common run of a[i..ahi-1] and b[j..bhi-1] (1-based, hi exclusive)
RECURSIVE RunLen(_, _, _, _, _, _)
RunLen(a, b, i, ahi, j, bhi) ==
  IF i < ahi /\ j < bhi /\ a[i] = b[j]
  THEN 1 + RunLen(a, b, i + 1, ahi, j + 1, bhi)
  ELSE 0

\* find_longest_match: the longest block, earliest in a, then earliest in b
FindLongestMatch(a, b, alo, ahi, blo, bhi) ==
  LET cand == { <<i, j>> \in (alo..(ahi-1)) \X (blo..(bhi-1)) : a[i] = b[j] }
      best == IF cand = {} THEN 0
              ELSE CHOOSE k \in 1..(ahi - alo) :
                     /\ \E c \in cand : RunLen(a, b, c[1], ahi, c[2], bhi) = k
                     /\ \A c \in cand : RunLen(a, b, c[1], ahi, c[2], bhi) <= k
  IN IF best = 0 THEN <<alo, blo, 0>>
     ELSE LET top == { c \in cand : RunLen(a, b, c[1], ahi, c[2], bhi) = best }
              i   == CHOOSE i \in alo..(ahi-1) :
                       /\ \E c \in top : c[1] = i
                       /\ \A c \in top : c[1] >= i
              j   == CHOOSE j \in blo..(bhi-1) :
                       /\ <<i, j>> \in top
                       /\ \A c \in top : c[1] = i => c[2] >= j
          IN <<i, j, best>>

\* sum of the sizes of get_matching_blocks() within a[alo..ahi-1], b[blo..bhi-1]
RECURSIVE MatchCount(_, _, _, _, _, _)
MatchCount(a, b, alo, ahi, blo, bhi) ==
  IF alo >= ahi \/ blo >= bhi THEN 0
  ELSE LET m == FindLongestMatch(a, b, alo, ahi, blo, bhi)
       IN IF m[3] = 0 THEN 0
          ELSE m[3] + MatchCount(a, b, alo, m[1], blo, m[2])
                    + MatchCount(a, b, m[1] + m[3], ahi, m[2] + m[3], bhi)

Matches(a, b) == MatchCount(a, b, 1, Len(a) + 1, 1, Len(b) + 1)

\* number of occurrences of c in s
Count(c, s) == Cardinality({ i \in 1..Len(s) : s[i] = c })

\* quick_ratio's match count: the size of the multiset intersection
QuickMatches(a, b) ==
  LET chars == { a[i] : i \in 1..Len(a) }
      RECURSIVE Sum(_)
      Sum(S) == IF S = {} THEN 0
                ELSE LET c == CHOOSE c \in S : TRUE
                         ca == Count(c, a)
                         cb == Count(c, b)
                     IN (IF ca < cb THEN ca ELSE cb) + Sum(S \ {c})
  IN Sum(chars)

Min(x, y) == IF x < y THEN x ELSE y

\* _calculate_ratio(matches, length) >= cutoff, the cutoff given in tenths:
\* 2.0 * matches / length >= 0.4  iff  20 * matches >= 4 * length
\* (length = 0 yields ratio 1.0)
RatioAtLeast(matches, length, tenths) ==
  IF length = 0 THEN 10 >= tenths ELSE 20 * matches >= tenths * length

(***************************************************************************)
(* Values. A Python value that may be None is None or Some(v); an empty    *)
(* spreadsheet cell is pandas' NaN; a call ends by returning a value or by *)
(* raising an exception.                                                   *)
(***************************************************************************)
None == <<>>
Some(v) == <<v>>
Val(o) == o[1]
NaN  == <<"NaN">>
Return(v) == [kind |-> "return", exc |-> "", value |-> v]
Raise(e)  == [kind |-> "raise", exc |-> e, value |-> None]

(***************************************************************************)
(* Tables: what pd.read_excel yields. A table has its columns and its rows;*)
(* a row maps each column of the table to a cell (text, or NaN when the    *)
(* cell is empty). Tables are never changed once built, and the program    *)
(* passes references to them: a frame is such a reference, naming the rows *)
(* of the sheet and its columns, and Table(frame) is the table itself.     *)
(***************************************************************************)
IssueCol == "Issue"
DescCol  == "Description of Issues Reported"
SolCol   == "Solutions"
AllCols  == {IssueCol, DescCol, SolCol}

Row(i, d, s) == (IssueCol :> i) @@ (DescCol :> d) @@ (SolCol :> s)

\* the rows the upstream sheet is made of
Catalogue ==
  << Row(<<"L","o","g","i","n">>, <<"n","o"," ","l","o","g"," ","i","n">>, <<"a">>),
     Row(<<"L","o","g","i","n">>, NaN,                                     <<"b">>),
     Row(NaN,                     <<"l","o","g"," ","o","u","t">>,         <<"c">>),
     Row(<<"L","o","g","i","c">>, <<"n","e","t">>,                         <<"d">>),
     Row(<<"L","o","g","o","n">>, NaN,                                     NaN),
     Row(<<"L","o","g","s">>,     <<"L","o","g"," ","f","u","l","l">>,     <<"f">>),
     Row(<<"A","u","d","i","o">>, <<"n","o"," ","m","i","c">>,             <<"g">>) >>

\* the sheet holding the catalogue rows with index in S (in sheet order) and
\* the columns cols
SubTable(S, cols) ==
  LET idx == SelectSeq([i \in 1..Len(Catalogue) |-> i], LAMBDA i : i \in S)
  IN [cols |-> cols,
      rows |-> [k \in 1..Len(idx) |-> [c \in cols |-> Catalogue[idx[k]][c]]]]

ColumnSets == { AllCols, {DescCol, SolCol}, {IssueCol, SolCol} }

\* the DataFrame a frame refers to
Table(frame) == SubTable(frame.ids, frame.cols)

\* every sheet of at most MaxRows rows
Frames ==
  { [ids |-> S, cols |-> cols] :
      S \in { X \in SUBSET (1..Len(Catalogue)) : Cardinality(X) <= MaxRows },
      cols \in ColumnSets }

\* the queries
QLog    == <<"L","o","g">>
QNetLog == <<"n","e","t"," ","l","o","g">>
QNan    == <<"n","a","n">>
QBlank  == <<" "," ">>
QLogni  == <<"L","o","g","n","i">>
QZzz    == <<"z","z","z">>
QMic    == <<" ","M","i","c"," ">>
Queries == { QLog, QNetLog, QNan, QBlank, QLogni, QZzz, QMic }

(***************************************************************************)
(* ExamSupportBot.search_issue: the Matcher tier.                          *)
(***************************************************************************)
\* row.get(col, "")
Get(row, col) == IF col \in DOMAIN row THEN row[col] ELSE <<>>

\* str(cell): str(float('nan')) is "nan"
Str(cell) == IF cell = NaN THEN <<"n","a","n">> ELSE cell

\* the same with "elif" read as "if": both tiers add up
FieldScoreBoth(q, text, whole, word) ==
  (IF StrIn(q, text) THEN whole ELSE 0)
  + (IF \E k \in 1..Len(Split(q)) : StrIn(Split(q)[k], text) THEN word ELSE 0)

\* if q in text: +whole   elif any(w in text for w in q.split()): +word
FieldScore(q, text, whole, word) ==
  IF StrIn(q, text) THEN whole
  ELSE IF \E k \in 1..Len(Split(q)) : StrIn(Split(q)[k], text) THEN word
  ELSE 0

\* the score of one row for q = query.lower().strip()
Score(q, row) ==
  LET issue       == Lower(Str(Get(row, IssueCol)))
      description == Lower(Str(Get(row, DescCol)))
  IN FieldScore(q, issue, 100, 50) + FieldScore(q, description, 75, 30)

\* the dict appended to results for a row
ResultOf(score, row) ==
  [score       |-> score,
   issue       |-> Get(row, IssueCol),
   description |-> Get(row, DescCol),
   solution    |-> Str(Get(row, SolCol))]

\* the loop over df.iterrows(): the rows of score > 0, in table order
RECURSIVE Candidates(_, _)
Candidates(q, rows) ==
  IF rows = <<>> THEN <<>>
  ELSE LET sc == Score(q, Head(rows))
       IN (IF sc > 0 THEN <<ResultOf(sc, Head(rows))>> ELSE <<>>)
          \o Candidates(q, Tail(rows))

\* results.sort(key=lambda x: x["score"], reverse=True): stable, descending
RECURSIVE SortByScore(_)
SortByScore(results) ==
  IF results = <<>> THEN <<>>
  ELSE LET top == CHOOSE m \in { results[k].score : k \in 1..Len(results) } :
                    \A k \in 1..Len(results) : results[k].score <= m
       IN SelectSeq(results, LAMBDA r : r.score = top)
          \o SortByScore(SelectSeq(results, LAMBDA r : r.score < top))

\* lines 125-147: the Matcher tier's sorted candidates on snapshot df
Matcher(query, df) == SortByScore(Candidates(Strip(Lower(query)), df.rows))

(***************************************************************************)
(* ExamSupportBot.search_issue: the Fallback tier.                         *)
(***************************************************************************)
\* table["Issue"].dropna().unique().tolist(): first occurrences, in order
RECURSIVE Unique(_)
Unique(cells) ==
  IF cells = <<>> THEN <<>>
  ELSE LET rest == Unique(SubSeq(cells, 1, Len(cells) - 1))
           last == cells[Len(cells)]
       IN IF last = NaN \/ \E k \in 1..Len(rest) : rest[k] = last
          THEN rest ELSE Append(rest, last)

HasIssueColumn(table) == IssueCol \in table.cols

IssueList(table) == Unique([k \in 1..Len(table.rows) |-> table.rows[k][IssueCol]])

\* one more name than the call asks for
CloseNPlusOne == 3 + 1
\* the n and cutoff of the get_close_matches call
CloseN == 3
CutoffTenths == 4

\* x, with m = the matches of SequenceMatcher(a = x, b = word), passes
\* get_close_matches' three tests: real_quick_ratio, quick_ratio and ratio
IsClose(word, x, m) ==
  LET length == Len(x) + Len(word)
  IN /\ RatioAtLeast(Min(Len(x), Len(word)), length, CutoffTenths)
     /\ RatioAtLeast(QuickMatches(x, word), length, CutoffTenths)
     /\ RatioAtLeast(m, length, CutoffTenths)

\* (ratio(y), y) > (ratio(x), x) as Python compares the tuples; my and mx are
\* the matches of y and of x with word
RanksAbove(word, y, my, x, mx) ==
  LET ly == my * (Len(x) + Len(word))
      lx == mx * (Len(y) + Len(word))
  IN ly > lx \/ (ly = lx /\ StrLess(x, y))

\* get_close_matches(word, possibilities, n=CloseN, cutoff=CutoffTenths/10):
\* heapq.nlargest(n, [(ratio, x) ...]), best first
CloseMatches(word, possibilities) ==
  LET m     == [k \in 1..Len(possibilities) |-> Matches(possibilities[k], word)]
      close == { k \in 1..Len(possibilities) : IsClose(word, possibilities[k], m[k]) }
      rank  == [k \in close |->
                  Cardinality({ j \in close :
                     RanksAbove(word, possibilities[j], m[j], possibilities[k], m[k]) })]
      n     == Min(CloseN, Cardinality(close))
  IN [r \in 1..n |-> possibilities[CHOOSE k \in close : rank[k] = r - 1]]

\* rows = df[df["Issue"] == match], each appended with score 25
Expand(match, df) ==
  LET rows == SelectSeq(df.rows, LAMBDA row : row[IssueCol] = match)
  IN [k \in 1..Len(rows) |-> ResultOf(25, rows[k])]

RECURSIVE ExpandAll(_, _)
ExpandAll(matches, df) ==
  IF matches = <<>> THEN <<>>
  ELSE Expand(Head(matches), df) \o ExpandAll(Tail(matches), df)

\* results[:5]
MaxResults == 5
\* the list returned whole
TruncateNothing(results) == results
Truncate(results) == SubSeq(results, 1, Min(MaxResults, Len(results)))

\* return results[:5] or None
ReturnOf(results) == IF Truncate(results) = <<>> THEN None ELSE Some(Truncate(results))

(***************************************************************************)
(* The state: the bot object, its environment and the threads.             *)
(***************************************************************************)
\* the thread serving /api/search requests
Searchers == {"web"}
\* the thread serving /api/refresh requests, and _refresh_loop's thread
Refreshers == {"manual", "auto"}

\* a downloaded or cached file: an Excel sheet (the frame read_excel makes
\* of it), or bytes read_excel rejects
Excel(frame) == [sheet |-> Some(frame)]
Corrupt  == [sheet |-> None]

VARIABLES
  df,            \* bot.df: None or Some(frame)
  lock,          \* bot._lock: "free" or the thread holding it
  last_refresh,  \* bot._last_refresh: None or Some(minute stamp)
  disk,          \* the file at LOCAL_EXCEL_PATH: None or Some(file)
  now,           \* the clock, in minutes
  phase,         \* "boot" (module import), "serving", "crashed"
  spc, squery, sdf, sresults, sissues, sret,    \* search_issue's frame
  rpc, rdf, rtotal, runique, rret,    \* refresh's frame
  rmine,         \* history: the (frame, stamp) the running refresh call installed
  installed,     \* history: every frame ever assigned to bot.df
  notReadySeen,  \* history: None, or Some(the answer a search got before any table was installed)
  nRefresh       \* refresh calls started so far

botVars == <<df, lock, last_refresh>>
envVars == <<disk, now, phase>>
sVars   == <<spc, squery, sdf, sresults, sissues, sret>>
rVars   == <<rpc, rdf, rtotal, runique, rret, rmine>>
hVars   == <<installed, notReadySeen>>
cVars   == <<nRefresh>>
vars    == <<botVars, envVars, sVars, rVars, hVars, cVars>>

\* ExamSupportBot.__init__ and the threads before their first call
Constructed ==
  /\ df = None
  /\ lock = "free"
  /\ last_refresh = None
  /\ now = 0
  /\ phase = "boot"
  /\ spc = [p \in Searchers |-> "idle"]
  /\ squery = [p \in Searchers |-> <<>>]
  /\ sdf = [p \in Searchers |-> None]
  /\ sresults = [p \in Searchers |-> <<>>]
  /\ sissues = [p \in Searchers |-> None]
  /\ sret = [p \in Searchers |-> None]
  /\ rpc = [p \in Refreshers |-> "idle"]
  /\ rdf = [p \in Refreshers |-> None]
  /\ rtotal = [p \in Refreshers |-> None]
  /\ runique = [p \in Refreshers |-> None]
  /\ rret = [p \in Refreshers |-> None]
  /\ rmine = [p \in Refreshers |-> None]
  /\ installed = {}
  /\ notReadySeen = None
  /\ nRefresh = 0

(***************************************************************************)
(* /api/search and ExamSupportBot.search_issue, statement by statement.    *)
(***************************************************************************)
\* the JSON answer of /api/search for what search_issue gave
Response(outcome) ==
  IF outcome.kind = "raise"
  THEN [status |-> 500, body |-> [error |-> outcome.exc]]
  ELSE IF outcome.value # None
  THEN [status |-> 200,
        body |-> [success |-> TRUE,
                  count   |-> Len(Val(outcome.value)),
                  results |-> Val(outcome.value)]]
  ELSE [status |-> 200,
        body |-> [success |-> FALSE, message |-> "No solutions found"]]

\* search(): a request with a query arrives; an empty query is answered 400
\* without calling the bot
SearchRequest(p, q) ==
  /\ phase = "serving"
  /\ spc[p] = "idle"
  /\ squery' = [squery EXCEPT ![p] = q]
  /\ spc' = [spc EXCEPT ![p] = IF q = <<>> THEN "idle" ELSE "s_lock"]
  /\ UNCHANGED <<botVars, envVars, sdf, sresults, sissues, sret, rVars, hVars, cVars>>

\* if df is None or not query.strip()
SkipsScan(query, snapshot) == snapshot = None \/ Strip(query) = <<>>

\* lines 120-149: df = self.df under the lock (the block only copies the
\* reference, so taking the lock, the copy and the release are one step);
\* then, on the local df alone, the early return, or the scoring loop, the
\* sort and the test of "if not results"
SMatch(p) ==
  /\ spc[p] = "s_lock"
  /\ lock = "free"
  /\ sdf' = [sdf EXCEPT ![p] = df]
  /\ IF SkipsScan(squery[p], df)
     THEN /\ sret' = [sret EXCEPT ![p] = Some(Return(None))]
          /\ spc' = [spc EXCEPT ![p] = "s_ret"]
          /\ UNCHANGED sresults
     ELSE LET results == Matcher(squery[p], Table(Val(df)))
          IN /\ sresults' = [sresults EXCEPT ![p] = results]
             /\ IF results = <<>>
                THEN /\ spc' = [spc EXCEPT ![p] = "f_lock"]
                     /\ UNCHANGED sret
                ELSE /\ spc' = [spc EXCEPT ![p] = "s_ret"]
                     /\ sret' = [sret EXCEPT ![p] = Some(Return(ReturnOf(results)))]
  /\ UNCHANGED <<botVars, envVars, squery, sissues, rVars, hVars, cVars>>

\* line 150: with self._lock
FAcquire(p) ==
  /\ spc[p] = "f_lock"
  /\ lock = "free"
  /\ lock' = p
  /\ spc' = [spc EXCEPT ![p] = "f_read"]
  /\ UNCHANGED <<df, last_refresh, envVars, squery, sdf, sresults, sissues, sret,
                 rVars, hVars, cVars>>

\* the table line 151 takes the issue names from: the bot's current table
IssueSource(p) == Table(Val(df))
\* the rows taken from the bot's current table instead
ExpandSourceCurrent(p) == Table(Val(df))
\* the table line 153 takes the rows from: the local df
ExpandSource(p) == Table(Val(sdf[p]))

\* lines 151-162: issue_list = self.df["Issue"].dropna().unique().tolist(),
\* computed while the lock is held (KeyError when that table has no Issue
\* column; leaving the with block releases the lock); then get_close_matches
\* on the raw query, the expansion of each match from the local df (KeyError
\* when it has no Issue column) and the return
FMatch(p) ==
  /\ spc[p] = "f_read"
  /\ lock = p
  /\ lock' = "free"
  /\ spc' = [spc EXCEPT ![p] = "s_ret"]
  /\ IF ~HasIssueColumn(IssueSource(p))
     THEN /\ sret' = [sret EXCEPT ![p] = Some(Raise("KeyError"))]
          /\ UNCHANGED <<sissues, sresults>>
     ELSE LET issue_list == IssueList(IssueSource(p))
              matches    == CloseMatches(squery[p], issue_list)
          IN /\ sissues' = [sissues EXCEPT ![p] = Some(issue_list)]
             /\ IF matches # <<>> /\ ~HasIssueColumn(ExpandSource(p))
                THEN /\ sret' = [sret EXCEPT ![p] = Some(Raise("KeyError"))]
                     /\ UNCHANGED sresults
                ELSE LET results == ExpandAll(matches, ExpandSource(p))
                     IN /\ sresults' = [sresults EXCEPT ![p] = results]
                        /\ sret' = [sret EXCEPT ![p] = Some(Return(ReturnOf(results)))]
  /\ UNCHANGED <<df, last_refresh, envVars, squery, sdf, rVars, hVars, cVars>>

\* the case a search that returns None arose from
CaseOf(p) ==
  IF sdf[p] = None THEN "not-ready"
  ELSE IF Strip(squery[p]) = <<>> THEN "empty-query"
  ELSE "no-match"

\* lines 469-472: search() answers, and the frame of search_issue is gone
SearchRespond(p) ==
  /\ spc[p] = "s_ret"
  /\ notReadySeen' =
       IF CaseOf(p) = "not-ready"
       THEN Some([result |-> Val(sret[p]), response |-> Response(Val(sret[p]))])
       ELSE notReadySeen
  /\ spc' = [spc EXCEPT ![p] = "idle"]
  /\ squery' = [squery EXCEPT ![p] = <<>>]
  /\ sdf' = [sdf EXCEPT ![p] = None]
  /\ sresults' = [sresults EXCEPT ![p] = <<>>]
  /\ sissues' = [sissues EXCEPT ![p] = None]
  /\ sret' = [sret EXCEPT ![p] = None]
  /\ UNCHANGED <<botVars, envVars, rVars, installed, cVars>>

(***************************************************************************)
(* download_excel, ExamSupportBot.load_from_path and ExamSupportBot.refresh*)
(* statement by statement.                                                 *)
(***************************************************************************)
\* pd.read_excel(path) succeeds on the file
Parses(file) == file # None /\ Val(file).sheet # None
SheetOf(file) == Val(Val(file).sheet)

\* len(table)
TotalRecords(table) == Len(table.rows)
\* table["Issue"].nunique(): the distinct non-empty issues
UniqueIssues(table) == Len(IssueList(table))

FailureDict ==
  [success |-> FALSE,
   message |-> "Download failed - check ONEDRIVE_SHARE_LINK env var."]
SuccessDict(total, unique, stamp) ==
  [success |-> TRUE, total_records |-> total, unique_issues |-> unique,
   last_refresh |-> stamp]

\* refresh() is entered (POST /api/refresh, or _refresh_loop waking up) and
\* runs download_excel: u = None stands for every path returning False (no
\* link, HTML page, HTTP error, exception); otherwise the fetched bytes
\* replace the file at LOCAL_EXCEL_PATH (the write is taken as one step)
Download(p, u) ==
  /\ phase = "serving"
  /\ rpc[p] = "idle"
  /\ nRefresh < MaxRefreshCalls
  /\ nRefresh' = nRefresh + 1
  /\ IF u = None
     THEN /\ rret' = [rret EXCEPT ![p] = Some(Return(FailureDict))]
          /\ rpc' = [rpc EXCEPT ![p] = "r_ret"]
          /\ UNCHANGED disk
     ELSE /\ disk' = u
          /\ rpc' = [rpc EXCEPT ![p] = "parse"]
          /\ UNCHANGED rret
  /\ UNCHANGED <<botVars, now, phase, sVars, rdf, rtotal, runique, rmine, hVars>>

\* line 93: df = pd.read_excel(path), of whatever the file holds now
Parse(p) ==
  /\ rpc[p] = "parse"
  /\ IF Parses(disk)
     THEN /\ rdf' = [rdf EXCEPT ![p] = Some(SheetOf(disk))]
          /\ rpc' = [rpc EXCEPT ![p] = "l_lock"]
          /\ UNCHANGED rret
     ELSE /\ rret' = [rret EXCEPT ![p] = Some(Raise("ParseError"))]
          /\ rpc' = [rpc EXCEPT ![p] = "r_ret"]
          /\ UNCHANGED rdf
  /\ UNCHANGED <<botVars, envVars, sVars, rtotal, runique, rmine,
                 hVars, cVars>>

\* lines 94-95: the lock is taken and self.df = df; the lock stays held
LSetDf(p) ==
  /\ rpc[p] = "l_lock"
  /\ lock = "free"
  /\ lock' = p
  /\ df' = rdf[p]
  /\ installed' = installed \cup {Val(rdf[p])}
  /\ rpc' = [rpc EXCEPT ![p] = "l_stamp"]
  /\ UNCHANGED <<last_refresh, envVars, sVars, rdf, rtotal, runique, rret, rmine,
                 notReadySeen, cVars>>

\* lines 96-97: self._last_refresh = time.strftime(...), the lock is released,
\* and the print of len(df) and df['Issue'].nunique() on the local df raises
\* KeyError when the loaded sheet has no Issue column
LSetStamp(p) ==
  /\ rpc[p] = "l_stamp"
  /\ lock = p
  /\ last_refresh' = Some(now)
  /\ rmine' = [rmine EXCEPT ![p] = Some([frame |-> Val(rdf[p]), stamp |-> Some(now)])]
  /\ lock' = "free"
  /\ IF HasIssueColumn(Table(Val(rdf[p])))
     THEN /\ rpc' = [rpc EXCEPT ![p] = "t_lock"]
          /\ UNCHANGED rret
     ELSE /\ rret' = [rret EXCEPT ![p] = Some(Raise("KeyError"))]
          /\ rpc' = [rpc EXCEPT ![p] = "r_ret"]
  /\ UNCHANGED <<df, envVars, sVars, rdf, rtotal, runique, hVars, cVars>>

\* lines 170-171: total_records: len(self.df) if self.df is not None else 0,
\* under the lock, in one step
TRead(p) ==
  /\ rpc[p] = "t_lock"
  /\ lock = "free"
  /\ rtotal' = [rtotal EXCEPT ![p] =
                  Some(IF df = None THEN 0 ELSE TotalRecords(Table(Val(df))))]
  /\ rpc' = [rpc EXCEPT ![p] = "u_lock"]
  /\ UNCHANGED <<botVars, envVars, sVars, rdf, runique, rret, rmine, hVars, cVars>>

\* lines 175-176: unique_issues: self.df["Issue"].nunique() if self.df is not
\* None else 0, under the lock, in one step; KeyError when the bot's table has
\* no Issue column
URead(p) ==
  /\ rpc[p] = "u_lock"
  /\ lock = "free"
  /\ IF df # None /\ ~HasIssueColumn(Table(Val(df)))
     THEN /\ rret' = [rret EXCEPT ![p] = Some(Raise("KeyError"))]
          /\ rpc' = [rpc EXCEPT ![p] = "r_ret"]
          /\ UNCHANGED runique
     ELSE /\ runique' = [runique EXCEPT ![p] =
                           Some(IF df = None THEN 0 ELSE UniqueIssues(Table(Val(df))))]
          /\ rpc' = [rpc EXCEPT ![p] = "stamp_read"]
          /\ UNCHANGED rret
  /\ UNCHANGED <<botVars, envVars, sVars, rdf, rtotal, rmine, hVars, cVars>>

\* the stamp refresh reports: self._last_refresh as it is now
ReportedStamp(p) == last_refresh

\* lines 111-114: self._last_refresh is read without the lock and the status
\* dict is returned
BuildReport(p) ==
  /\ rpc[p] = "stamp_read"
  /\ rret' = [rret EXCEPT ![p] =
                Some(Return(SuccessDict(Val(rtotal[p]), Val(runique[p]),
                                        ReportedStamp(p))))]
  /\ rpc' = [rpc EXCEPT ![p] = "r_ret"]
  /\ UNCHANGED <<botVars, envVars, sVars, rdf, rtotal, runique, rmine,
                 hVars, cVars>>

\* refresh is left: /api/refresh answers; _refresh_loop goes back to sleep, or
\* its thread ends when the exception reaches the top of the thread
RefreshReturn(p) ==
  /\ rpc[p] = "r_ret"
  /\ rpc' = [rpc EXCEPT ![p] =
               IF p = "auto" /\ Val(rret[p]).kind = "raise" THEN "dead" ELSE "idle"]
  /\ rdf' = [rdf EXCEPT ![p] = None]
  /\ rtotal' = [rtotal EXCEPT ![p] = None]
  /\ runique' = [runique EXCEPT ![p] = None]
  /\ rret' = [rret EXCEPT ![p] = None]
  /\ rmine' = [rmine EXCEPT ![p] = None]
  /\ UNCHANGED <<botVars, envVars, sVars, hVars, cVars>>

(***************************************************************************)
(* startup_load, run once while the module is imported, before the refresh *)
(* thread and the server exist; and the clock.                             *)
(***************************************************************************)
\* u is what download_excel fetches in step 2 (None: no link, or a failure)
StartupLoad(u) ==
  /\ phase = "boot"
  /\ LET cached   == Parses(disk)
         \* step 1 ends startup when the cache loads and its print succeeds
         done1    == cached /\ HasIssueColumn(Table(SheetOf(disk)))
         df1      == IF cached THEN Some(SheetOf(disk)) ELSE df
         stamp1   == IF cached THEN Some(now) ELSE last_refresh
         inst1    == IF cached THEN {SheetOf(disk)} ELSE {}
         fetched  == ~done1 /\ u # None
         loaded2  == fetched /\ Parses(u)
     IN /\ df' = IF loaded2 THEN Some(SheetOf(u)) ELSE df1
        /\ last_refresh' = IF loaded2 THEN Some(now) ELSE stamp1
        /\ installed' = installed \cup inst1 \cup (IF loaded2 THEN {SheetOf(u)} ELSE {})
        /\ disk' = IF fetched THEN u ELSE disk
        /\ phase' = IF fetched /\ (~loaded2 \/ ~HasIssueColumn(Table(SheetOf(u))))
                    THEN "crashed" ELSE "serving"
  /\ UNCHANGED <<lock, now, sVars, rVars, notReadySeen, cVars>>

\* a minute passes
Tick ==
  /\ phase # "crashed"
  /\ now < MaxClock
  /\ now' = now + 1
  /\ UNCHANGED <<botVars, disk, phase, sVars, rVars, hVars, cVars>>

(***************************************************************************)
(* The service under concurrent searches and refreshes.                    *)
(***************************************************************************)
TableA  == [ids |-> {1, 2, 4}, cols |-> AllCols]
TableB  == [ids |-> {3, 7}, cols |-> AllCols]
TableNoIssue == [ids |-> {7}, cols |-> {DescCol, SolCol}]
\* what a download may fetch: nothing, unreadable bytes, or a sheet
Served == { None, Some(Corrupt), Some(Excel(TableA)), Some(Excel(TableB)),
            Some(Excel(TableNoIssue)) }
ServedQueries == { QLogni, QLog }

\* a fresh deployment: no cached file next to the module, and no sheet
\* fetched while the module is imported
Init == Constructed /\ disk = None

SearchStep(p) ==
  \/ SMatch(p)
  \/ FAcquire(p)
  \/ FMatch(p)
  \/ SearchRespond(p)

RefreshStep(p) ==
  \/ \E u \in Served : Download(p, u)
  \/ Parse(p)
  \/ LSetDf(p)
  \/ LSetStamp(p)
  \/ TRead(p)
  \/ URead(p)
  \/ BuildReport(p)
  \/ RefreshReturn(p)

Next ==
  \/ StartupLoad(None)
  \/ Tick
  \/ \E p \in Searchers, q \in ServedQueries : SearchRequest(p, q)
  \/ \E p \in Searchers : SearchStep(p)
  \/ \E p \in Refreshers : RefreshStep(p)

Spec == Init /\ [][Next]_vars

(***************************************************************************)
(* The search alone: the service restarted on a cached file, every sheet   *)
(* of the catalogue and every query, no refresh.                           *)
(***************************************************************************)
InitCached ==
  /\ Constructed
  /\ disk \in { Some(Excel(f)) : f \in Frames } \cup { Some(Corrupt), None }

NextSearch ==
  \/ \E u \in { None, Some(Corrupt), Some(Excel(TableA)) } : StartupLoad(u)
  \/ \E p \in Searchers, q \in Queries \cup {<<>>} : SearchRequest(p, q)
  \/ \E p \in Searchers : SearchStep(p)

SearchSpec == InitCached /\ [][NextSearch]_vars

(***************************************************************************)
(* The claims.                                                             *)
(***************************************************************************)
\* search_issue has read its snapshot
SnapshotTaken(p) == spc[p] \in {"f_lock", "f_read", "s_ret"}
\* search_issue returned a list of results
ReturnedResults(p) ==
  /\ spc[p] = "s_ret"
  /\ Val(sret[p]).kind = "return"
  /\ Val(sret[p]).value # None
ResultsOf(p) == Val(Val(sret[p]).value)
\* result r is the answer built from some row of the table
IsRecordOf(r, table) ==
  \E i \in 1..Len(table.rows) :
     /\ r.issue = Get(table.rows[i], IssueCol)
     /\ r.description = Get(table.rows[i], DescCol)
     /\ r.solution = Str(Get(table.rows[i], SolCol))

\* C1: the table reference a search_issue call reads at its start is None or
\* refers to one whole table that was installed, and every record of the call's result
\* is a record of that one table, whatever refreshes install in between.
C1_ResultFromOneVersion ==
  \A p \in Searchers :
     SnapshotTaken(p) =>
       /\ sdf[p] = None \/ Val(sdf[p]) \in installed
       /\ ReturnedResults(p) =>
            \A k \in 1..Len(ResultsOf(p)) : IsRecordOf(ResultsOf(p)[k], Table(Val(sdf[p])))

\* C1 witness: a search returned results although a refresh has replaced the
\* table since its snapshot, and a returned record is no record of the table
\* now installed.
C1_Witness ==
  \E p \in Searchers :
     /\ ReturnedResults(p)
     /\ df # sdf[p]
     /\ \E k \in 1..Len(ResultsOf(p)) : ~IsRecordOf(ResultsOf(p)[k], Table(Val(df)))

\* C2: when the Matcher tier yields nothing, the issue names the Fallback tier
\* matches against are those of the snapshot the Matcher tier scanned.
C2_FallbackUsesSnapshot ==
  \A p \in Searchers :
     sissues[p] # None =>
       /\ HasIssueColumn(Table(Val(sdf[p])))
       /\ Val(sissues[p]) = IssueList(Table(Val(sdf[p])))

\* a refresh call is about to leave refresh(), and whether it succeeded
RefreshEnded(p) == rpc[p] = "r_ret"
Succeeded(p) == Val(rret[p]).kind = "return" /\ Val(rret[p]).value.success

\* C3: a refresh call that does not complete successfully has changed neither
\* the installed table nor the last-refresh stamp.
C3_FailedRefreshInstallsNothing ==
  \A p \in Refreshers :
     (RefreshEnded(p) /\ ~Succeeded(p)) => rmine[p] = None

\* C4: a refresh call ends by returning a status value, never by an exception,
\* so the background refresh thread is never ended by a failed refresh.
C4_FailureIsReturned ==
  /\ \A p \in Refreshers : RefreshEnded(p) => Val(rret[p]).kind = "return"
  /\ rpc["auto"] # "dead"

\* C5: search_issue returns at most 5 results, in non-increasing order of
\* score, from either tier.
C5_AtMostFiveSorted ==
  \A p \in Searchers :
     ReturnedResults(p) =>
       /\ Len(ResultsOf(p)) <= 5
       /\ \A i, j \in 1..Len(ResultsOf(p)) :
             i < j => ResultsOf(p)[i].score >= ResultsOf(p)[j].score

\* C5 witness: more than 5 rows matched, 5 were returned, and their scores
\* are not all the same.
C5_Witness ==
  \E p \in Searchers :
     /\ ReturnedResults(p)
     /\ Len(sresults[p]) > 5
     /\ Len(ResultsOf(p)) = 5
     /\ ResultsOf(p)[1].score > ResultsOf(p)[5].score

\* sub occurs in s at some offset
IsSubstring(sub, s) ==
  \E off \in 0..(Len(s) - Len(sub)) : \A k \in 1..Len(sub) : s[off + k] = sub[k]
\* the whitespace-separated words of q
WordsOf(q) ==
  { SubSeq(q, i, j) : <<i, j>> \in
      { w \in (1..Len(q)) \X (1..Len(q)) :
          /\ w[1] <= w[2]
          /\ \A k \in w[1]..w[2] : q[k] # " "
          /\ (w[1] = 1 \/ q[w[1] - 1] = " ")
          /\ (w[2] = Len(q) \/ q[w[2] + 1] = " ") } }
\* the part one field contributes: whole if the query is a substring of the
\* text, else word if some query word is, else 0
PartOf(q, text, whole, word) ==
  IF IsSubstring(q, text) THEN whole
  ELSE IF \E w \in WordsOf(q) : IsSubstring(w, text) THEN word
  ELSE 0
\* the lower-cased text the code compares for a column of a row
FieldText(row, col) == Lower(Str(Get(row, col)))
\* the score the rule gives a row: issue part plus description part
RuleScore(q, row) ==
  PartOf(q, FieldText(row, IssueCol), 100, 50)
  + PartOf(q, FieldText(row, DescCol), 75, 30)
\* the Matcher tier has run and sresults holds its candidates
MatcherDone(p) ==
  \/ spc[p] \in {"f_lock", "f_read"}
  \/ spc[p] = "s_ret" /\ sissues[p] = None /\ ~SkipsScan(squery[p], sdf[p])

\* C6: for a non-empty query the Matcher's candidates are exactly the rows
\* whose score is not 0, each with the score 100/50/0 for the issue plus
\* 75/30/0 for the description (whole query, else some word, else nothing).
C6_MatcherScore ==
  \A p \in Searchers :
     MatcherDone(p) =>
       LET q    == Strip(Lower(squery[p]))
           rows == Table(Val(sdf[p])).rows
           hits == { i \in 1..Len(rows) : RuleScore(q, rows[i]) > 0 }
       IN /\ Len(sresults[p]) = Cardinality(hits)
          /\ \A i \in hits :
                \E k \in 1..Len(sresults[p]) :
                   sresults[p][k] = ResultOf(RuleScore(q, rows[i]), rows[i])
          /\ \A k \in 1..Len(sresults[p]) :
                \E i \in hits :
                   sresults[p][k] = ResultOf(RuleScore(q, rows[i]), rows[i])

\* C6 witness: a query of two words scored one row 100 + 75, another by its
\* words alone, and left a row out.
C6_Witness ==
  \E p \in Searchers :
     /\ MatcherDone(p)
     /\ Len(Split(squery[p])) = 2
     /\ \E k \in 1..Len(sresults[p]) : sresults[p][k].score = 50 + 30
     /\ \E k \in 1..Len(sresults[p]) : sresults[p][k].score = 50
     /\ Len(sresults[p]) < Len(Table(Val(sdf[p])).rows)

\* the Fallback tier ran to its end and sresults holds what it found
FallbackDone(p) ==
  /\ spc[p] = "s_ret"
  /\ sissues[p] # None
  /\ Val(sret[p]).kind = "return"
\* the issue names among a list of results
NamesIn(results) == { results[k].issue : k \in 1..Len(results) }
\* the similarity ratio of name to query, 2 * matches / (lengths), is >= 0.4
RatioAtLeastCutoff(name, query) ==
  10 * 2 * Matches(name, query) >= 4 * (Len(name) + Len(query))

\* C7: the records the Fallback tier finds belong to at most 3 distinct issue
\* names of the table, each of ratio >= 0.4 to the query, and each record has
\* score 25.
C7_FallbackBounds ==
  \A p \in Searchers :
     FallbackDone(p) =>
       /\ Cardinality(NamesIn(sresults[p])) <= 3
       /\ \A k \in 1..Len(sresults[p]) :
             /\ sresults[p][k].score = 25
             /\ IsRecordOf(sresults[p][k], Table(Val(sdf[p])))
             /\ RatioAtLeastCutoff(sresults[p][k].issue, squery[p])
       /\ ReturnedResults(p) => NamesIn(ResultsOf(p)) \subseteq NamesIn(sresults[p])

\* C7 witness: the table has five issue names, four of them close to the
\* query and one not; the Fallback tier returned records of three.
C7_Witness ==
  \E p \in Searchers :
     /\ FallbackDone(p)
     /\ ReturnedResults(p)
     /\ Cardinality(NamesIn(sresults[p])) = 3
     /\ Len(Val(sissues[p])) = 5
     /\ \E k \in 1..5 : ~RatioAtLeastCutoff(Val(sissues[p])[k], squery[p])
     /\ Cardinality({ k \in 1..5 : RatioAtLeastCutoff(Val(sissues[p])[k], squery[p]) }) = 4

\* C8: a search that ran on an installed table and found nothing is answered
\* differently from a search made before any table was installed, by
\* search_issue or by /api/search.
C8_NoMatchDiffersFromNotReady ==
  \A p \in Searchers :
     ( /\ spc[p] = "s_ret"
       /\ CaseOf(p) = "no-match"
       /\ Val(sret[p]).kind = "return"
       /\ Val(sret[p]).value = None
       /\ notReadySeen # None )
     => \/ Val(notReadySeen).result # Val(sret[p])
        \/ Val(notReadySeen).response # Response(Val(sret[p]))

\* a cell that is missing: an empty cell, or the default of an absent column
IsMissing(cell) == cell = NaN \/ cell = <<>>

\* C9: a missing issue or description contributes 0 to the score: a candidate
\* whose issue is missing has the score of its description alone, and one
\* whose description is missing the score of its issue alone.
C9_MissingFieldScoresZero ==
  \A p \in Searchers :
     MatcherDone(p) =>
       \A k \in 1..Len(sresults[p]) :
          /\ IsMissing(sresults[p][k].issue) => sresults[p][k].score \in {75, 30}
          /\ IsMissing(sresults[p][k].description) => sresults[p][k].score \in {100, 50}

\* C10: a successful refresh call reports the record count, the issue count
\* and the stamp of the table this call installed.
C10_ReportIsOwnInstall ==
  \A p \in Refreshers :
     (RefreshEnded(p) /\ Succeeded(p)) =>
        Val(rret[p]).value =
          SuccessDict(TotalRecords(Table(Val(rmine[p]).frame)),
                      UniqueIssues(Table(Val(rmine[p]).frame)),
                      Val(rmine[p]).stamp)

\* lines 150-151: the thread is inside "with self._lock" of search_issue, where
\* self.df["Issue"].dropna().unique().tolist() walks the Issue column of every
\* row of the bot's table before the block is left
ScansUnderLock(p) ==
  /\ spc[p] = "f_read"
  /\ lock = p
  /\ TotalRecords(IssueSource(p)) > 0

\* the thread stands at a "with self._lock" (lines 94, 120, 150, 169, 174)
\* while another thread holds the lock
WaitsForLock(p) ==
  /\ lock \notin {"free", p}
  /\ \/ p \in Searchers /\ spc[p] \in {"s_lock", "f_lock"}
     \/ p \in Refreshers /\ rpc[p] \in {"l_lock", "t_lock", "u_lock"}

\* C11: the lock is held only while the table reference and its stamp are
\* read or swapped: no thread walks the records of a table while it holds
\* the lock, so no search or install waits at the lock for another
\* operation's scan.
C11_NoScanUnderLock ==
  \A p \in Searchers : \A r \in Searchers \cup Refreshers :
     ~(ScansUnderLock(p) /\ WaitsForLock(r))

====
